---- MODULE Spec2Model ----
(***************************************************************************)
(* A model of one DistAlgo process (class DistProcess of dpy/sim.py): the  *)
(* spawn handshake, the background receive pump, the logical clock, the    *)
(* fault injector, send, the label checkpoint with its timer, the event    *)
(* dispatcher, the pattern matching engine and the label-scoped job queue. *)
(*                                                                         *)
(* The main logic is one thread; its position is pc.  A label checkpoint   *)
(* is a sequence of steps of that thread (Label, then GetEvent, then one   *)
(* step per iteration of the job-queue loop, then JobsDone); the receive   *)
(* pump (Pump) interleaves with those steps.                               *)
(*                                                                         *)
(* Spec is the process under a main() that sends, calls labels with and    *)
(* without deadlines and meets every fault class, with one event waiting   *)
(* at most.  SpecLifecycle is the process with a deeper event queue, every *)
(* handshake command and exit.                                             *)
(***************************************************************************)
EXTENDS Integers, Sequences, FiniteSets, TLC

None == "None"

\* ---- bounds of the model ------------------------------------------------
MaxClock == 2      \* the logical clock is capped in the guards
MaxEventQ == 1     \* events waiting in the event queue
MaxJobs == 3       \* jobs ever created (job identities 1..MaxJobs)
MaxTime == 0       \* time.time() as read by _label is in 0..MaxTime
MaxBacklog == 2    \* events waiting in the event queue, in SpecLifecycle

\* ---- program constants --------------------------------------------------
RandLo == 0        \* random.randint(0, 100): both ends are included
RandHi == 100
ExitRaised == 10   \* exit: raise SystemExit(10)
CrashCode == 10    \* _label: self.exit(10)

\* ---- inputs -------------------------------------------------------------
SelfId == "p"
Srcs == {"q1"}
Timestamps == {0, 1}
Msgs == {"X", "Y", "Z"}   \* the pattern of "Z" has no handler
Names == {"A", "C", "X"}
Rates == {0, 100}
DrawValues == {RandLo, RandHi}
Timeouts == {<< >>, <<0>>, <<1>>}   \* timeout=None is << >>
SetupArgs == {42}
EventTimeouts == {5}
ExitCodes == {0, 3}
FailTypes == {"send", "receive", "crash"}
\* The fault tables a handshake sets up: at most one class is faulty.
RateTables ==
  {f \in [FailTypes -> Rates] : Cardinality({t \in FailTypes : f[t] > 0}) <= 1}
SendMsgs == {"X", "Y"}
Tos == { [iter |-> FALSE, ds |-> <<"q1">>],
         [iter |-> TRUE,  ds |-> << >>],
         [iter |-> TRUE,  ds |-> <<"q1", "q2">>] }

Max(a, b) == IF a >= b THEN a ELSE b

\* ---- the handlers and patterns registered with the process --------------
\* A handler is user code: its label filters (_labels, _notlabels) and what
\* its body does when called with the bindings of a match.  A filter that
\* is None in the program is Unset here.
Unset == {None}
Handlers ==
  [ hIncl  |-> [labels |-> {"A", "B"}, notlabels |-> Unset, body |-> "ok"],
    hExcl  |-> [labels |-> Unset,      notlabels |-> {"X"}, body |-> "typeerror"],
    hSend  |-> [labels |-> Unset,      notlabels |-> Unset, body |-> "send"],
    hRaise |-> [labels |-> {"C"},      notlabels |-> Unset, body |-> "raise"],
    hSent  |-> [labels |-> {"C", "X"}, notlabels |-> Unset, body |-> "ok"] ]

\* self._events: the patterns in registration order.
Patterns ==
  << [name |-> "recvX",  kind |-> "Received", msg |-> "X",
      record_history |-> "append", handlers |-> <<"hIncl", "hExcl">>],
     [name |-> "recvY",  kind |-> "Received", msg |-> "Y",
      record_history |-> None,     handlers |-> <<"hSend">>],
     [name |-> "recvY2", kind |-> "Received", msg |-> "Y",
      record_history |-> None,     handlers |-> <<"hRaise">>],
     [name |-> "sentY",  kind |-> "Sent",     msg |-> "Y",
      record_history |-> "custom", handlers |-> <<"hSent">>],
     [name |-> "recvZ",  kind |-> "Received", msg |-> "Z",
      record_history |-> "append", handlers |-> << >>] >>

HistNames == {"recvX", "sentY", "recvZ"}

\* What the body of hSend sends, and to whom.
HandlerSendData == "Y"
HandlerSendTo == [iter |-> TRUE, ds |-> <<"q1", "q2">>]

\* ---- pure parts of the program ------------------------------------------
\* pattern.ReceivedEvent(message, timestamp, source, destination=None)
ReceivedEvent(src, clk, data) ==
  [kind |-> "Received", msg |-> data, ts |-> clk, src |-> src, dst |-> None]

\* pattern.Event(pattern.SentEvent, self._id, self._logical_clock, data)
SentEvent(clk, data) ==
  [kind |-> "Sent", msg |-> data, ts |-> clk, src |-> SelfId, dst |-> None]

\* event.to_tuple(): (kind, payload, timestamp, source, destination)
ToTuple(e) == <<e.kind, e.msg, e.ts, e.src, e.dst>>

\* p.match(event, bindings, ...): the patterns here look at kind and payload.
Match(p, e) == p.kind = e.kind /\ p.msg = e.msg

\* _fails: an unknown class never fails; else the draw is below the rate.
Fails(f, failtype, draw) ==
  IF failtype \notin DOMAIN f THEN FALSE ELSE draw < f[failtype]

\* A slip of the handshake: the command's call is made twice.
InvokeTwice(inst, args) == << <<inst, args>>, <<inst, args>> >>

\* _wait_for_go: the calls one command (inst, args) makes, each a pair of
\* what is called (setup, or the setter of inst) and its argument.
Invoke(inst, args) == << <<inst, args>> >>

\* The event queue, queue.Queue, is first in, first out.  A slip of the
\* insertion: the event is put in front.
PutFront(q, e) == <<e>> \o q

\* self._eventq.put(e)
Put(q, e) == Append(q, e)

\* Two slips of the removal: all events are taken, the last one is taken.
DequeueAll(q) == << >>
DequeueLast(q) == SubSeq(q, 1, Len(q) - 1)

\* self._eventq.get(...): the queue that is left.
Dequeue(q) == Tail(q)

\* incr_logical_clock
IncrClock(c) == c + 1

\* Two slips of the clock update: the increment left out, the max left out.
RecvClockNoIncr(c, ts) == Max(c, ts)
RecvClockNoMax(c, ts) == ts + 1

\* _process_event: self._logical_clock = max(self._logical_clock, ts) + 1
RecvClock(c, ts) == Max(c, ts) + 1

\* The admissibility test of _process_jobqueue.
Admits(h, label) ==
  /\ (Handlers[h].labels = Unset \/ label \in Handlers[h].labels)
  /\ (Handlers[h].notlabels = Unset \/ label \notin Handlers[h].notlabels)

\* Two slips of the carry-over: the job is dropped, the job is put in front.
KeepJobDrop(q, job) == q
KeepJobFront(q, job) == <<job>> \o q

\* newq.append((handler, args))
KeepJob(q, job) == Append(q, job)

\* The custom history update stub of pattern sentY: keep a tuple once.
UpdateStub(h, t) ==
  IF \E i \in 1..Len(h) : h[i] = t THEN h ELSE Append(h, t)

\* A slip of the append policy: the tuple is put in front.
RecordHistoryFront(p, h, e) ==
  IF p.record_history = "append"
  THEN [h EXCEPT ![p.name] = <<ToTuple(e)>> \o @]
  ELSE IF p.record_history # None
       THEN [h EXCEPT ![p.name] = UpdateStub(@, ToTuple(e))]
       ELSE h

\* The history side effect of one match.
RecordHistory(p, h, e) ==
  IF p.record_history = "append" THEN [h EXCEPT ![p.name] = Append(@, ToTuple(e))]
  ELSE IF p.record_history # None
       THEN [h EXCEPT ![p.name] = UpdateStub(@, ToTuple(e))]
       ELSE h

\* for h in p.handlers: self._jobqueue.append((h, bindings)); a job carries
\* its identity (the order of creation), its handler and the bindings.
RECURSIVE EnqueueHandlers(_, _, _, _, _)
EnqueueHandlers(hs, i, e, q, nid) ==
  IF i > Len(hs) THEN [q |-> q, nid |-> nid]
  ELSE EnqueueHandlers(hs, i + 1, e,
                       Append(q, [id |-> nid, h |-> hs[i], args |-> e.msg]),
                       nid + 1)

\* A slip of the matching loop: the first pattern that matches wins.
RECURSIVE TriggerFirst(_, _, _, _, _)
TriggerFirst(i, e, q, nid, h) ==
  IF i > Len(Patterns) THEN [q |-> q, nid |-> nid, hist |-> h]
  ELSE IF Match(Patterns[i], e)
       THEN LET r == EnqueueHandlers(Patterns[i].handlers, 1, e, q, nid)
            IN [q |-> r.q, nid |-> r.nid,
                hist |-> RecordHistory(Patterns[i], h, e)]
       ELSE TriggerFirst(i + 1, e, q, nid, h)

\* _trigger_event: every pattern in registration order.
RECURSIVE TriggerFrom(_, _, _, _, _)
TriggerFrom(i, e, q, nid, h) ==
  IF i > Len(Patterns) THEN [q |-> q, nid |-> nid, hist |-> h]
  ELSE IF Match(Patterns[i], e)
       THEN LET r == EnqueueHandlers(Patterns[i].handlers, 1, e, q, nid)
            IN TriggerFrom(i + 1, e, r.q, r.nid, RecordHistory(Patterns[i], h, e))
       ELSE TriggerFrom(i + 1, e, q, nid, h)

TriggerEvent(e, q, nid, h) == TriggerFrom(1, e, q, nid, h)

\* The transmissions of _send to the destinations, in order.
Transmit(to, data, clk) ==
  [i \in 1..Len(to.ds) |->
     [dest |-> to.ds[i], data |-> data, from |-> SelfId, clock |-> clk]]

\* A slip of the aggregation: the result of the last destination wins.
SendResultLast(to, acks) ==
  IF Len(to.ds) = 0 THEN TRUE ELSE acks[Len(to.ds)]

\* The result of _send when not suppressed: for an iterable, false as soon
\* as one destination's send returns false; else that one send's result.
\* acks[i] is what the send of the i-th destination returned.
SendResult(to, acks) ==
  IF to.iter THEN \A i \in 1..Len(to.ds) : acks[i]
  ELSE acks[1]

NoSend == [called |-> FALSE]

\* A slip of exit: the process ends as if main() had returned.
ExitStatusZero(code) == 0

\* exit(code): the status the process ends with.
ExitStatus(code) == ExitRaised

\* _send as a whole: the new clock, job queue and histories, and a record
\* of what the call did.
SendOp(data, to, draw, acks, c, f, q, nid, h) ==
  LET c1 == IncrClock(c) IN
  IF Fails(f, "send", draw)
  THEN [clock |-> c1, q |-> q, nid |-> nid, hist |-> h,
        rec |-> [called |-> TRUE, clock0 |-> c, rate |-> f["send"], data |-> data,
                 to |-> to, acks |-> acks, suppressed |-> TRUE,
                 sent |-> << >>, result |-> FALSE, event |-> << >>,
                 jobs |-> 0, reported |-> FALSE]]
  ELSE LET ev == SentEvent(c1, data)
           r == TriggerEvent(ev, q, nid, h)
       IN [clock |-> c1, q |-> r.q, nid |-> r.nid, hist |-> r.hist,
           rec |-> [called |-> TRUE, clock0 |-> c, rate |-> f["send"], data |-> data,
                    to |-> to, acks |-> acks, suppressed |-> FALSE,
                    sent |-> Transmit(to, data, c1),
                    result |-> SendResult(to, acks), event |-> <<ev>>,
                    jobs |-> r.nid - nid, reported |-> TRUE]]

\* ---- the state ----------------------------------------------------------
VARIABLES
  pc,             \* position of the main logic: "boot", "handshake", "main",
                  \* "get" (in _process_event), "jobs" (in the job loop), "exited"
  running,        \* self._running
  failures,       \* self._failures
  clock,          \* self._logical_clock
  eventq,         \* self._eventq
  jobqueue,       \* self._jobqueue
  hist,           \* the history containers, by pattern name
  timer,          \* self._timer: << >> is None
  timer_expired,  \* self._timer_expired
  now,            \* time.time()
  exitcode,       \* the exit status once exited: << >> while alive
  pending,        \* the arguments of the label call in progress
  idx,            \* _process_jobqueue: position of the loop in self._jobqueue
  newq,           \* _process_jobqueue: newq
  nextId,         \* identity of the next job created
  invoked,        \* the jobs whose handler has been called
  again,          \* the jobs whose handler has been called more than once
  cp,             \* the label call in progress or just returned: its name,
                  \* the jobs it ran (in order), its outcome, the jobs
                  \* enqueued while its job loop was running
  evClock,        \* the clock after the latest event dispatched (0: none)
  evrec,          \* the event the latest step dispatched, if any: its
                  \* timestamp, the clock before and after it, and evClock
                  \* as it was before; or that the queue was found empty
  sendrec,        \* what the _send call of the latest step did, if any
  hsrec,          \* the handshake command the latest step processed, if any
  pumprec,        \* the inbound message the latest step of the pump took, if any
  evtimeout,      \* self._evtimeout: << >> is None
  exitreq,        \* the code an exit call was given: << >> while none
  early           \* the events waiting that were put before "start"

vars == <<pc, running, failures, clock, eventq, jobqueue, hist, timer,
          timer_expired, now, exitcode, pending, idx, newq, nextId, invoked,
          again, cp, evClock, evrec, sendrec, hsrec, pumprec, evtimeout,
          exitreq, early>>

NoCp == [name |-> None, executed |-> << >>, outcome |-> None, born |-> {}]
NoEv == [seen |-> FALSE, empty |-> FALSE]
NoHs == [cmd |-> None, calls |-> << >>]
NoPump == [seen |-> FALSE]
NoPending == [name |-> None, block |-> FALSE, deadline |-> << >>]

\* __init__, and run up to _wait_for_go (the comm thread is started).
Init ==
  /\ pc = "boot"
  /\ running = FALSE
  /\ failures = [t \in FailTypes |-> 0]
  /\ clock = 0
  /\ eventq = << >>
  /\ jobqueue = << >>
  /\ hist = [n \in HistNames |-> << >>]
  /\ timer = << >>
  /\ timer_expired = FALSE
  /\ now = 0
  /\ exitcode = << >>
  /\ pending = NoPending
  /\ idx = 0
  /\ newq = << >>
  /\ nextId = 1
  /\ invoked = {}
  /\ again = {}
  /\ cp = NoCp
  /\ evClock = 0
  /\ evrec = NoEv
  /\ sendrec = NoSend
  /\ hsrec = NoHs
  /\ pumprec = NoPump
  /\ evtimeout = << >>
  /\ exitreq = << >>
  /\ early = 0

\* The length the job loop runs to, had it iterated a copy of the list
\* taken when it started.
LoopLenAtStart == Len(jobqueue) - Cardinality(cp.born)

\* for handler, args in self._jobqueue: the loop runs to the end of the
\* list as it is now.
LoopLen == Len(jobqueue)

\* A step that sends nothing and dispatches no event.
NoSendNoEvent == sendrec' = NoSend /\ evrec' = NoEv

\* A step outside a label call: a label call that had returned is over.
OutsideLabel == cp' = IF pc = "main" THEN NoCp ELSE cp

\* ---- the handshake (_wait_for_go) ---------------------------------------
\* self._initpipe.send(self._id)
ReportId ==
  /\ pc = "boot"
  /\ pc' = "handshake"
  /\ hsrec' = [cmd |-> "id", calls |-> << >>]
  /\ pumprec' = NoPump
  /\ NoSendNoEvent
  /\ UNCHANGED <<running, failures, clock, eventq, jobqueue, hist, timer,
                 timer_expired, now, exitcode, pending, idx, newq, nextId,
                 invoked, again, cp, evClock, evtimeout, exitreq, early>>

\* act = ("setup", args): self.setup(*args)
HandshakeSetup(args) ==
  /\ pc = "handshake"
  /\ hsrec' = [cmd |-> "setup", calls |-> Invoke("setup", args)]
  /\ pumprec' = NoPump
  /\ NoSendNoEvent
  /\ UNCHANGED <<pc, running, failures, clock, eventq, jobqueue, hist, timer,
                 timer_expired, now, exitcode, pending, idx, newq, nextId,
                 invoked, again, cp, evClock, evtimeout, exitreq, early>>

\* act = (inst, args) with inst one of send_fail_rate, receive_fail_rate,
\* crash_rate: getattr(self, "set_" + inst)(*args)
HandshakeSet(failtype, rate) ==
  /\ pc = "handshake"
  /\ failures' = [failures EXCEPT ![failtype] = rate]
  /\ failures' \in RateTables
  /\ hsrec' = [cmd |-> failtype, calls |-> Invoke(failtype, rate)]
  /\ pumprec' = NoPump
  /\ NoSendNoEvent
  /\ UNCHANGED <<pc, running, clock, eventq, jobqueue, hist, timer,
                 timer_expired, now, exitcode, pending, idx, newq, nextId,
                 invoked, again, cp, evClock, evtimeout, exitreq, early>>

\* act = ("event_timeout", args): set_event_timeout
HandshakeSetTimeout(t) ==
  /\ pc = "handshake"
  /\ evtimeout' = <<t>>
  /\ hsrec' = [cmd |-> "event_timeout", calls |-> Invoke("event_timeout", t)]
  /\ pumprec' = NoPump
  /\ NoSendNoEvent
  /\ UNCHANGED <<pc, running, failures, clock, eventq, jobqueue, hist, timer,
                 timer_expired, now, exitcode, pending, idx, newq, nextId,
                 invoked, again, cp, evClock, exitreq, early>>

\* act == "start": the running flag is set and main() is entered.
Start ==
  /\ pc = "handshake"
  /\ running' = TRUE
  /\ pc' = "main"
  /\ hsrec' = [cmd |-> "start", calls |-> << >>]
  /\ pumprec' = NoPump
  /\ NoSendNoEvent
  /\ UNCHANGED <<failures, clock, eventq, jobqueue, hist, timer, timer_expired,
                 now, exitcode, pending, idx, newq, nextId, invoked, again, cp,
                 evClock, evtimeout, exitreq, early>>

\* ---- the receive pump (Comm.run over _recvmesgs) ------------------------
\* One inbound message (src, clock, data): dropped when the receive fault
\* fires, else a ReceivedEvent is put on the event queue.  The queue of the
\* program is unbounded; the model lets the pump run while fewer than cap
\* events wait.
PumpTo(cap, src, ts, data, draw) ==
  /\ pc # "exited"
  /\ Len(eventq) < cap
  /\ LET drop == Fails(failures, "receive", draw)
     IN /\ eventq' = IF drop THEN eventq
                     ELSE Put(eventq, ReceivedEvent(src, ts, data))
        /\ pumprec' = [seen |-> TRUE, src |-> src, ts |-> ts, data |-> data,
                       suppressed |-> drop]
        /\ early' = IF ~running /\ ~drop THEN early + 1 ELSE early
  /\ hsrec' = NoHs
  /\ NoSendNoEvent
  /\ OutsideLabel
  /\ UNCHANGED <<pc, running, failures, clock, jobqueue, hist, timer,
                 timer_expired, now, exitcode, pending, idx, newq, nextId,
                 invoked, again, evClock, evtimeout, exitreq>>

Pump(src, ts, data, draw) == PumpTo(MaxEventQ, src, ts, data, draw)

PumpBacklog(src, ts, data, draw) == PumpTo(MaxBacklog, src, ts, data, draw)

\* ---- send, called by main() ---------------------------------------------
Send(data, to, draw, acks) ==
  /\ pc = "main"
  /\ clock < MaxClock
  /\ LET r == SendOp(data, to, draw, acks, clock, failures, jobqueue, nextId, hist)
     IN /\ r.nid <= MaxJobs + 1
        /\ clock' = r.clock
        /\ jobqueue' = r.q
        /\ nextId' = r.nid
        /\ hist' = r.hist
        /\ sendrec' = r.rec
  /\ evrec' = NoEv
  /\ hsrec' = NoHs
  /\ pumprec' = NoPump
  /\ OutsideLabel
  /\ UNCHANGED <<pc, running, failures, eventq, timer, timer_expired, now,
                 exitcode, pending, idx, newq, invoked, again, evClock,
                 evtimeout, exitreq, early>>

\* ---- exit, called by main() ---------------------------------------------
\* exit(code): SystemExit leaves main() and run(), the process ends.
Exit(code) ==
  /\ pc = "main"
  /\ pc' = "exited"
  /\ exitcode' = <<ExitStatus(code)>>
  /\ exitreq' = <<code>>
  /\ hsrec' = NoHs
  /\ pumprec' = NoPump
  /\ NoSendNoEvent
  /\ OutsideLabel
  /\ UNCHANGED <<running, failures, clock, eventq, jobqueue, hist, timer,
                 timer_expired, now, pending, idx, newq, nextId, invoked,
                 again, evClock, evtimeout, early>>

\* ---- the label checkpoint (_label) --------------------------------------
\* Up to the call of _process_event: the crash fault, then the timer.  The
\* names "start" and "end" (the performance timers) are not among Names.
\* Time is read by time.time() only: d1 is the time that has passed since
\* the reading before, d2 the time between this call's two readings.
Label(name, block, timeout, draw, d1, d2) ==
  /\ pc = "main"
  /\ timeout # << >> => now + d1 + d2 <= MaxTime
  /\ timeout = << >> => d1 = 0 /\ d2 = 0
  /\ timer # << >> => d1 = 0
  /\ hsrec' = NoHs
  /\ pumprec' = NoPump
  /\ NoSendNoEvent
  /\ UNCHANGED <<running, failures, clock, eventq, jobqueue, hist, idx, newq,
                 nextId, invoked, again, evClock, evtimeout, exitreq, early>>
  /\ IF Fails(failures, "crash", draw)
     THEN /\ pc' = "exited"
          /\ exitcode' = <<ExitStatus(CrashCode)>>
          /\ cp' = [NoCp EXCEPT !.name = name, !.outcome = "crashed"]
          /\ UNCHANGED <<timer, timer_expired, now, pending>>
     ELSE IF timeout # << >>
     THEN LET t0 == IF timer = << >> THEN now + d1 ELSE timer[1]
              exp0 == IF timer = << >> THEN FALSE ELSE timer_expired
              t1 == now + d1 + d2
              timeleft == timeout[1] - (t1 - t0)
          IN /\ now' = t1
             /\ exitcode' = exitcode
             /\ IF timeleft <= 0
                THEN /\ timer' = << >>
                     /\ timer_expired' = TRUE
                     /\ pc' = "main"
                     /\ pending' = NoPending
                     /\ cp' = [NoCp EXCEPT !.name = name, !.outcome = "expired"]
                ELSE /\ timer' = <<t0>>
                     /\ timer_expired' = exp0
                     /\ pc' = "get"
                     /\ pending' = [name |-> name, block |-> block,
                                    deadline |-> <<t1 + timeleft>>]
                     /\ cp' = [NoCp EXCEPT !.name = name, !.outcome = "running"]
     ELSE /\ pc' = "get"
          /\ pending' = [name |-> name, block |-> block, deadline |-> << >>]
          /\ cp' = [NoCp EXCEPT !.name = name, !.outcome = "running"]
          /\ UNCHANGED <<timer, timer_expired, now, exitcode>>

\* ---- the event dispatcher (_process_event) ------------------------------
\* _process_event has returned: block and the deadline are dead, the name
\* is what _process_jobqueue is called with.
ToJobs ==
  /\ pc' = "jobs"
  /\ idx' = 1
  /\ newq' = << >>
  /\ pending' = [name |-> pending.name, block |-> FALSE, deadline |-> << >>]

\* self._eventq.get returns an event: the clock, then _trigger_event.
GetEvent ==
  /\ pc = "get"
  /\ eventq # << >>
  /\ LET e == Head(eventq)
         c1 == RecvClock(clock, e.ts)
         r == TriggerEvent(e, jobqueue, nextId, hist)
     IN /\ c1 <= MaxClock
        /\ r.nid <= MaxJobs + 1
        /\ eventq' = Dequeue(eventq)
        /\ clock' = c1
        /\ jobqueue' = r.q
        /\ nextId' = r.nid
        /\ hist' = r.hist
        /\ evClock' = c1
        /\ evrec' = [seen |-> TRUE, ts |-> e.ts, before |-> clock,
                     after |-> c1, prev |-> evClock, event |-> e,
                     early |-> early > 0]
        /\ early' = Max(early - 1, 0)
  /\ ToJobs
  /\ sendrec' = NoSend
  /\ hsrec' = NoHs
  /\ pumprec' = NoPump
  /\ UNCHANGED <<running, failures, timer, timer_expired, now, exitcode,
                 invoked, again, cp, evtimeout, exitreq>>

\* self._eventq.get raises queue.Empty: at once when block is false, at the
\* deadline when block is true; without a deadline it waits.
GetEmpty ==
  /\ pc = "get"
  /\ eventq = << >>
  /\ ~pending.block \/ pending.deadline # << >>
  /\ now' = IF pending.block THEN Max(now, pending.deadline[1]) ELSE now
  /\ ToJobs
  /\ evrec' = [seen |-> FALSE, empty |-> TRUE, block |-> pending.block]
  /\ sendrec' = NoSend
  /\ hsrec' = NoHs
  /\ pumprec' = NoPump
  /\ UNCHANGED <<running, failures, clock, eventq, jobqueue, hist, timer,
                 timer_expired, exitcode, nextId, invoked, again, cp,
                 evClock, evtimeout, exitreq, early>>

\* ---- the job queue (_process_jobqueue) ----------------------------------
\* One action per way an iteration of `for handler, args in self._jobqueue`
\* can go.  The loop reads the list it iterates, so jobs appended by a
\* handler's send are visited by the same loop.
InLoop == pc = "jobs" /\ idx <= LoopLen

\* handler(**args) is called.
Called(job) ==
  /\ invoked' = invoked \cup {job.id}
  /\ again' = IF job.id \in invoked THEN again \cup {job.id} ELSE again

\* The handler returns, or raises TypeError, which is logged and swallowed.
JobRun ==
  /\ InLoop
  /\ Admits(jobqueue[idx].h, pending.name)
  /\ Handlers[jobqueue[idx].h].body \in {"ok", "typeerror"}
  /\ Called(jobqueue[idx])
  /\ cp' = [cp EXCEPT !.executed = Append(@, jobqueue[idx])]
  /\ idx' = idx + 1
  /\ hsrec' = NoHs
  /\ pumprec' = NoPump
  /\ NoSendNoEvent
  /\ UNCHANGED <<pc, running, failures, clock, eventq, jobqueue, hist, timer,
                 timer_expired, now, exitcode, pending, newq, nextId, evClock,
                 evtimeout, exitreq, early>>

\* The handler calls send and returns.
JobSend(draw, acks) ==
  /\ InLoop
  /\ Admits(jobqueue[idx].h, pending.name)
  /\ Handlers[jobqueue[idx].h].body = "send"
  /\ Called(jobqueue[idx])
  /\ clock < MaxClock
  /\ LET r == SendOp(HandlerSendData, HandlerSendTo, draw, acks, clock,
                     failures, jobqueue, nextId, hist)
     IN /\ r.nid <= MaxJobs + 1
        /\ clock' = r.clock
        /\ jobqueue' = r.q
        /\ nextId' = r.nid
        /\ hist' = r.hist
        /\ sendrec' = r.rec
        /\ cp' = [cp EXCEPT !.executed = Append(@, jobqueue[idx]),
                            !.born = @ \cup (nextId .. r.nid - 1)]
  /\ evrec' = NoEv
  /\ hsrec' = NoHs
  /\ pumprec' = NoPump
  /\ idx' = idx + 1
  /\ UNCHANGED <<pc, running, failures, eventq, timer, timer_expired, now,
                 exitcode, pending, newq, evClock, evtimeout, exitreq, early>>

\* The handler raises an error that is not a TypeError: it leaves
\* _process_jobqueue and _label before self._jobqueue = newq.  main() either
\* catches it and goes on, or run() reports it and the process ends.
JobRaise(caught) ==
  /\ InLoop
  /\ Admits(jobqueue[idx].h, pending.name)
  /\ Handlers[jobqueue[idx].h].body = "raise"
  /\ Called(jobqueue[idx])
  /\ cp' = [cp EXCEPT !.executed = Append(@, jobqueue[idx]),
                      !.outcome = "raised"]
  /\ pc' = IF caught THEN "main" ELSE "exited"
  /\ exitcode' = IF caught THEN exitcode ELSE <<0>>
  /\ idx' = 0
  /\ newq' = << >>
  /\ pending' = NoPending
  /\ hsrec' = NoHs
  /\ pumprec' = NoPump
  /\ NoSendNoEvent
  /\ UNCHANGED <<running, failures, clock, eventq, jobqueue, hist, timer,
                 timer_expired, now, nextId, evClock, evtimeout, exitreq,
                 early>>

\* The label is not admitted: the job goes to newq.
JobKeep ==
  /\ InLoop
  /\ ~Admits(jobqueue[idx].h, pending.name)
  /\ newq' = KeepJob(newq, jobqueue[idx])
  /\ idx' = idx + 1
  /\ hsrec' = NoHs
  /\ pumprec' = NoPump
  /\ NoSendNoEvent
  /\ UNCHANGED <<pc, running, failures, clock, eventq, jobqueue, hist, timer,
                 timer_expired, now, exitcode, pending, nextId, invoked, again,
                 cp, evClock, evtimeout, exitreq, early>>

\* The loop is over: self._jobqueue = newq, and _label returns.
JobsDone ==
  /\ pc = "jobs"
  /\ idx > LoopLen
  /\ jobqueue' = newq
  /\ newq' = << >>
  /\ idx' = 0
  /\ pending' = NoPending
  /\ pc' = "main"
  /\ cp' = [cp EXCEPT !.outcome = "done"]
  /\ hsrec' = NoHs
  /\ pumprec' = NoPump
  /\ NoSendNoEvent
  /\ UNCHANGED <<running, failures, clock, eventq, hist, timer, timer_expired,
                 now, exitcode, nextId, invoked, again, evClock, evtimeout,
                 exitreq, early>>

\* ---- the specification --------------------------------------------------
Acks(to) == [1..Len(to.ds) -> BOOLEAN]

Next ==
  \/ ReportId
  \/ \E a \in SetupArgs : HandshakeSetup(a)
  \/ \E t \in FailTypes, r \in Rates : HandshakeSet(t, r)
  \/ Start
  \/ \E s \in Srcs, t \in Timestamps, m \in Msgs, w \in DrawValues : Pump(s, t, m, w)
  \/ \E m \in SendMsgs, to \in Tos, w \in DrawValues :
       \E ak \in Acks(to) : Send(m, to, w, ak)
  \/ \E n \in Names, b \in BOOLEAN, t \in Timeouts, w \in DrawValues :
       \E d1 \in 0..1, d2 \in 0..1 : Label(n, b, t, w, d1, d2)
  \/ GetEvent
  \/ GetEmpty
  \/ JobRun
  \/ \E w \in DrawValues, ak \in Acks(HandlerSendTo) : JobSend(w, ak)
  \/ \E c \in BOOLEAN : JobRaise(c)
  \/ JobKeep
  \/ JobsDone

Spec == Init /\ [][Next]_vars

\* ---- the life cycle and the backlog -------------------------------------
\* The same process with a deeper event queue, every handshake command and
\* exit, under a main() that sends nothing itself and gives its label calls
\* no deadline; of the fault classes the handshake sets the receive rate.
NextLifecycle ==
  \/ ReportId
  \/ \E a \in SetupArgs : HandshakeSetup(a)
  \/ \E r \in Rates : HandshakeSet("receive", r)
  \/ \E t \in EventTimeouts : HandshakeSetTimeout(t)
  \/ Start
  \/ \E s \in Srcs, t \in Timestamps, m \in Msgs, w \in DrawValues :
       PumpBacklog(s, t, m, w)
  \/ \E n \in Names, b \in BOOLEAN : Label(n, b, << >>, RandLo, 0, 0)
  \/ GetEvent
  \/ GetEmpty
  \/ JobRun
  \/ \E w \in DrawValues, ak \in Acks(HandlerSendTo) : JobSend(w, ak)
  \/ \E c \in BOOLEAN : JobRaise(c)
  \/ JobKeep
  \/ JobsDone
  \/ \E c \in ExitCodes : Exit(c)

SpecLifecycle == Init /\ [][NextLifecycle]_vars

\* ---- the claims ---------------------------------------------------------
Ids(q) == [i \in 1..Len(q) |-> q[i].id]
Increasing(ids) == \A i, j \in 1..Len(ids) : i < j => ids[i] < ids[j]
InQueue(id) == \E i \in 1..Len(jobqueue) : jobqueue[i].id = id
\* A label call has returned to main().
Returned == pc = "main" /\ cp.name # None

\* C1: after an event with timestamp t is dispatched the logical clock is
\* max(clock before, t) + 1, and it is above the clock after the event
\* dispatched before it.
C1_ClockAfterEvent ==
  evrec.seen =>
    /\ evrec.after = Max(evrec.before, evrec.ts) + 1
    /\ clock = evrec.after
    /\ evrec.after > evrec.prev

\* A second event is dispatched, its timestamp not below the clock.
C1_Witness ==
  evrec.seen /\ evrec.prev >= 1 /\ evrec.ts >= evrec.before

\* C2: over every interleaving of sends, label checkpoints and events the
\* logical clock never decreases, and right after an event is dispatched it
\* is above the event's timestamp.
C2_ClockMonotone ==
  [][clock' >= clock /\ (evrec'.seen => clock' > evrec'.ts)]_vars

\* The first event is dispatched after a send has advanced the clock, its
\* timestamp not below the clock.
C2_Witness ==
  evrec.seen /\ evrec.ts >= evrec.before /\ evrec.before >= 1 /\ evrec.prev = 0

\* C3: when a label call has returned, every job in the queue at that point
\* is one its name does not admit (a job runs at the first checkpoint whose
\* name its handler's filters admit), and every job it ran is one its name
\* admits.
C3_RunsAtFirstAdmitted ==
  Returned =>
    /\ \A i \in 1..Len(jobqueue) : ~Admits(jobqueue[i].h, cp.name)
    /\ \A i \in 1..Len(cp.executed) : Admits(cp.executed[i].h, cp.name)

\* C4: a job whose handler has not been called is in the job queue.
C4_NeverDropped ==
  \A id \in 1..(nextId - 1) : id \notin invoked => InQueue(id)

\* A label call has returned and left in the queue a job it did not admit.
C4_Witness ==
  /\ Returned
  /\ cp.outcome = "done"
  /\ \E i \in 1..Len(jobqueue) :
       jobqueue[i].id \notin invoked /\ ~Admits(jobqueue[i].h, cp.name)

\* C5: no job's handler is called more than once, and when a label call
\* has returned no job whose handler was called is in the job queue.
C5_ConsumedOnce ==
  /\ again = {}
  /\ Returned => \A i \in 1..Len(jobqueue) : jobqueue[i].id \notin invoked

\* C6: a label call runs the jobs in the order they were enqueued, and the
\* jobs carried over (in newq, then in the job queue) keep that order.
C6_FifoOrder ==
  /\ Increasing(Ids(cp.executed))
  /\ Increasing(Ids(newq))
  /\ Increasing(Ids(jobqueue))

\* A label call has returned after running a job and carrying over two.
C6_Witness ==
  /\ Returned
  /\ cp.outcome = "done"
  /\ Len(cp.executed) >= 1
  /\ Len(jobqueue) >= 2

\* C7: with crash rate 0 no label call force-exits; with crash rate 100
\* every label call force-exits, whatever the draw.
C7_CrashRate ==
  cp.name # None =>
    /\ failures["crash"] = 0 => cp.outcome # "crashed"
    /\ failures["crash"] = 100 => cp.outcome = "crashed"

\* C8: with send-fail rate 100 every send returns failure and transmits
\* nothing, whatever the draw.
C8_SendFailRate ==
  (sendrec.called /\ sendrec.rate = 100) =>
    (sendrec.result = FALSE /\ sendrec.sent = << >>)

\* C9: a suppressed send advances the clock by one, triggers a SENT event,
\* transmits nothing and returns failure.
C9_SuppressedSend ==
  (sendrec.called /\ sendrec.suppressed) =>
    /\ clock = sendrec.clock0 + 1
    /\ sendrec.event # << >>
    /\ sendrec.sent = << >>
    /\ sendrec.result = FALSE

\* C10: a send advances the clock by one whatever the number of
\* destinations; when not suppressed it transmits (payload, selfId, clock)
\* with that one clock value to every destination in turn, and for an
\* iterable it returns true iff every destination's send returned true.
C10_FanOut ==
  sendrec.called =>
    /\ clock = sendrec.clock0 + 1
    /\ ~sendrec.suppressed =>
         /\ Len(sendrec.sent) = Len(sendrec.to.ds)
         /\ \A i \in 1..Len(sendrec.sent) :
              sendrec.sent[i] = [dest |-> sendrec.to.ds[i], data |-> sendrec.data,
                                 from |-> SelfId, clock |-> clock]
         /\ sendrec.to.iter =>
              sendrec.result = (\A i \in 1..Len(sendrec.to.ds) : sendrec.acks[i])

\* A send to two destinations of which the first fails and the second not.
C10_Witness ==
  /\ sendrec.called
  /\ ~sendrec.suppressed
  /\ sendrec.to.iter
  /\ Len(sendrec.to.ds) = 2
  /\ ~sendrec.acks[1]
  /\ sendrec.acks[2]

\* The RECEIVED event of the inbound message the pump took.
Pumped ==
  [kind |-> "Received", msg |-> pumprec.data, ts |-> pumprec.ts,
   src |-> pumprec.src, dst |-> None]

\* C11: under every interleaving of the pump and the main logic, a message
\* the receive fault did not suppress is added at the tail of the event
\* queue as a RECEIVED event with its source, timestamp and payload, a
\* suppressed message adds nothing, the event dispatched is the one at the
\* head, and no other step touches the queue: the events dispatched are a
\* prefix of the messages not suppressed, in arrival order.
C11_ArrivalOrder ==
  [][ /\ pumprec'.seen =>
           eventq' = IF pumprec'.suppressed THEN eventq
                     ELSE Append(eventq, Pumped')
      /\ evrec'.seen =>
           /\ eventq # << >>
           /\ evrec'.event = Head(eventq)
           /\ eventq' = Tail(eventq)
      /\ (~pumprec'.seen /\ ~evrec'.seen) => eventq' = eventq ]_vars

\* With the receive fault on, the first of two different waiting events has
\* just been dispatched and the second waits.
C11_Witness ==
  /\ evrec.seen
  /\ failures["receive"] = 100
  /\ Len(eventq) = 1
  /\ eventq[1] # evrec.event

\* C12: a label call removes at most one event from the event queue (a
\* step removes at most one, only the dispatcher step removes any, and a
\* label call enters the dispatcher once, from main()); and when the
\* dispatcher finds the queue empty with block false it changes neither
\* the logical clock nor a history container nor the job queue.
C12_OneEventPerLabel ==
  [][ /\ Len(eventq') >= Len(eventq) - 1
      /\ Len(eventq') < Len(eventq) => pc = "get" /\ pc' = "jobs"
      /\ (pc' = "get" /\ pc # "get") => pc = "main"
      /\ (pc = "get" /\ pc' # "get" /\ eventq = << >> /\ ~pending.block) =>
           /\ clock' = clock
           /\ hist' = hist
           /\ jobqueue' = jobqueue
           /\ eventq' = eventq
           /\ nextId' = nextId ]_vars

\* The dispatcher has just found the queue empty with block false, after an
\* earlier event that left the clock advanced and a job waiting.
C12_Witness ==
  /\ ~evrec.seen
  /\ evrec.empty
  /\ ~evrec.block
  /\ pc = "jobs"
  /\ clock > 0
  /\ jobqueue # << >>

\* The events a step from the current state to the next has triggered: the
\* event the dispatcher took, or the SENT event of a send.
Triggered ==
  IF evrec'.seen THEN <<evrec'.event>>
  ELSE IF sendrec'.called THEN sendrec'.event
  ELSE << >>

\* C13: the history container of a pattern with the append policy grows by
\* the tuple of every event observed that matches the pattern, at its end,
\* and by nothing else: after matching events E1..En it is
\* [E1.tuple, ..., En.tuple], and events that do not match add nothing.
C13_AppendHistory ==
  [][ \A i \in 1..Len(Patterns) :
        Patterns[i].record_history = "append" =>
          hist'[Patterns[i].name] =
            IF Triggered # << >> /\ Match(Patterns[i], Triggered[1])
            THEN Append(hist[Patterns[i].name],
                        <<Triggered[1].kind, Triggered[1].msg, Triggered[1].ts,
                          Triggered[1].src, Triggered[1].dst>>)
            ELSE hist[Patterns[i].name] ]_vars

\* Two events with different tuples that match one append pattern, and
\* not the other, have been observed, the second just now.
C13_Witness ==
  /\ evrec.seen
  /\ Len(hist["recvZ"]) = 2
  /\ hist["recvZ"][1] # hist["recvZ"][2]
  /\ hist["recvX"] = << >>

\* The handlers of the patterns from the i-th on that match e, by pattern
\* registration order and then handler list order.
RECURSIVE MatchingHandlers(_, _)
MatchingHandlers(i, e) ==
  IF i > Len(Patterns) THEN << >>
  ELSE (IF Match(Patterns[i], e) THEN Patterns[i].handlers ELSE << >>)
         \o MatchingHandlers(i + 1, e)

\* C14: when an event is triggered every pattern is evaluated: the jobs
\* appended to the job queue are one job per handler of every matching
\* pattern, carrying the bindings of the match, by pattern registration
\* order and then handler list order, and no other job; a step that
\* triggers no event appends no job.
C14_AllPatterns ==
  [][ IF Triggered # << >>
      THEN LET hs == MatchingHandlers(1, Triggered[1])
           IN /\ nextId' = nextId + Len(hs)
              /\ jobqueue' = jobqueue \o
                   [k \in 1..Len(hs) |->
                      [id |-> nextId + k - 1, h |-> hs[k],
                       args |-> Triggered[1].msg]]
      ELSE nextId' = nextId ]_vars

\* An event that matches two patterns has just been dispatched: behind a
\* job that waited, one job of each pattern, in registration order.
C14_Witness ==
  /\ evrec.seen
  /\ evrec.event.msg = "Y"
  /\ Len(jobqueue) = 3
  /\ jobqueue[2].h = "hSend"
  /\ jobqueue[3].h = "hRaise"

\* The handshake commands that call setup or a setter.
Calling == hsrec.cmd \notin {None, "id", "start"}

\* C15: the child reports its id before anything else; every command before
\* "start" makes exactly one call, of setup for "setup" and of the setter
\* of its attribute otherwise, with the command's argument, and has that
\* setter's effect and no other; the running flag is false until "start"
\* and true from then on, main() is entered by "start" only, and no
\* handshake command is processed once the flag is set.
C15_Handshake ==
  /\ [](/\ running = (pc \notin {"boot", "handshake"})
        /\ pc = "boot" => hsrec = NoHs
        /\ hsrec.cmd = "start" => pc = "main"
        /\ Calling => /\ pc = "handshake"
                      /\ Len(hsrec.calls) = 1
                      /\ hsrec.calls[1][1] = hsrec.cmd)
  /\ [][ /\ pc = "boot" => pc' = "boot" \/ hsrec'.cmd = "id"
         /\ running => hsrec'.cmd = None
         /\ running' # running => hsrec'.cmd = "start"
         /\ failures' =
              IF Calling' /\ hsrec'.cmd \in FailTypes
              THEN [failures EXCEPT ![hsrec'.cmd] = hsrec'.calls[1][2]]
              ELSE failures
         /\ evtimeout' =
              IF Calling' /\ hsrec'.cmd = "event_timeout"
              THEN <<hsrec'.calls[1][2]>>
              ELSE evtimeout ]_vars

\* "start" has just been processed after a setter of each kind: the
\* receive rate and the event timeout are as set.
C15_Witness ==
  /\ hsrec.cmd = "start"
  /\ running
  /\ failures["receive"] = 100
  /\ evtimeout # << >>

\* C16: a label call with a deadline skips the dispatcher and sets the
\* expired flag only if a timer was running before the call (a call that
\* starts the timer itself does not record expiry).
C16_ExpiryNeedsRunningTimer ==
  [][cp'.outcome = "expired" => timer # << >>]_vars

\* C17: when the crash fault fires at a label call the process ends at once
\* with the fixed exit status 10, which is not zero: that step dequeues no
\* event, leaves the logical clock as it is and runs no job, and after it
\* the process does nothing more.
C17_CrashExit ==
  /\ [](cp.outcome = "crashed" =>
          /\ pc = "exited"
          /\ exitcode = <<CrashCode>>
          /\ exitcode # <<0>>
          /\ cp.executed = << >>)
  /\ [][ (cp'.outcome = "crashed" \/ pc = "exited") =>
           /\ eventq' = eventq
           /\ clock' = clock
           /\ invoked' = invoked
           /\ jobqueue' = jobqueue
           /\ hist' = hist ]_vars

\* The crash fault has fired at a label call whose name admits a waiting
\* job, with an event waiting.
C17_Witness ==
  /\ cp.outcome = "crashed"
  /\ eventq # << >>
  /\ \E i \in 1..Len(jobqueue) : Admits(jobqueue[i].h, cp.name)

\* C18: an exit(code) call ends the process at once with the exit status
\* equal to the code it was given, for every code.
C18_ExitWithCode ==
  exitreq # << >> => pc = "exited" /\ exitcode = exitreq

\* The label call in progress or just returned has run the job.
RanHere(id) == \E i \in 1..Len(cp.executed) : cp.executed[i].id = id

\* C19: a job enqueued while the job loop of a label call is running (by
\* the send of a handler) has been run by that label call or is in the job
\* queue, at every point up to and at the return of the call.
C19_BornInLoopKept ==
  \A id \in cp.born : RanHere(id) \/ InQueue(id)

\* A label call has returned after running a job that a handler's send
\* enqueued during its loop, and carrying over a job it did not admit.
C19_Witness ==
  /\ Returned
  /\ cp.outcome = "done"
  /\ \E id \in cp.born : RanHere(id)
  /\ jobqueue # << >>

\* C20: the pump runs during the handshake, but before "start" no event is
\* dispatched: the logical clock is 0, no pattern has matched (no history
\* entry, no job) and no handler has run, and every event put so far is
\* still waiting.  An event put before "start" leaves the queue only by
\* being dispatched, after "start", from the head of the queue, where the
\* events put before "start" wait in their arrival order.
C20_HeldUntilStart ==
  /\ [](/\ early <= Len(eventq)
        /\ ~running =>
             /\ clock = 0
             /\ evClock = 0
             /\ nextId = 1
             /\ jobqueue = << >>
             /\ invoked = {}
             /\ \A n \in HistNames : hist[n] = << >>
             /\ early = Len(eventq))
  /\ [][ /\ ~running =>
              \/ eventq' = eventq
              \/ pumprec'.seen /\ eventq' = Append(eventq, Pumped')
         /\ evrec'.seen =>
              /\ running
              /\ evrec'.event = Head(eventq)
              /\ eventq' = Tail(eventq)
              /\ evrec'.early = (early > 0)
         /\ early' < early => evrec'.seen /\ early' = early - 1 ]_vars

\* Of two different events put before "start" the first has just been
\* dispatched and the second waits.
C20_Witness ==
  /\ evrec.seen
  /\ evrec.early
  /\ early = 1
  /\ eventq[1] # evrec.event
====
